---- MODULE Spec2Model ----
(***************************************************************************)
(* Model of match.py: partner matching by schedule overlap.               *)
(*                                                                         *)
(* Indices are 1-based here (Python's are 0-based).  A netid is a natural  *)
(* number; the order of naturals stands for the order of Python strings.  *)
(* A student record keeps the three fields the scoring reads; a student's *)
(* identity (Python's object identity) is its position in the list.       *)
(***************************************************************************)
EXTENDS Integers, Sequences, FiniteSets, TLC

\* ------------------------------------------------------------- constants
PREF_MAX_DIFF == 1
PRIO_MAX_DIFF == 1

\* ---------------------------------------------------------------- bounds
\* longest student list
MaxStudents == 4
\* longest student list whose start preferences and priorities vary freely
MaxVaried == 2
\* length of an availability vector (28 in import_data)
NumSlots == 3
\* start preferences are 0..MaxPref, priorities 0..MaxPrio
MaxPref == 2
MaxPrio == 2
\* the user types a cutoff of -MaxNegCutoff..MaxCutoffInput
MaxNegCutoff == 1
MaxCutoffInput == 2

VARIABLES students, netids, suit_matrix, user_cutoff, if_csv, student_num,
          start_cutoff, cutoff, graph, matching, tried, printed, csv_file, pc

vars == <<students, netids, suit_matrix, user_cutoff, if_csv, student_num,
          start_cutoff, cutoff, graph, matching, tried, printed, csv_file, pc>>

\* Python's None, and a value that is not None
None == [tag |-> "None"]
Some(v) == [tag |-> "Some", val |-> v]
IsNone(x) == x.tag = "None"

Abs(x) == IF x < 0 THEN 0 - x ELSE x

Indices(seq) == 1..Len(seq)

\* ------------------------------------------------------------ the inputs
Slots == 1..NumSlots
AvailVectors == [Slots -> {0, 1}]

\* Student, as far as build_suit_matrix reads it
Student == [start_pref : 0..MaxPref, priority : 0..MaxPrio,
            available_times : AvailVectors]

\* students who all pass the hard constraints with one another
UniformStudent == {s \in Student : s.start_pref = 0 /\ s.priority = 0}

StudentLists ==
  UNION ({[1..n -> Student] : n \in 0..MaxVaried}
         \cup {[1..n -> UniformStudent] : n \in 0..MaxStudents})

\* the netids of the file's rows: pairwise distinct, ascending but for the
\* last row, which has the least; or the last row repeats the first row's
\* email
Rotated(n) == [i \in 1..n |-> (i % n) + 1]
Repeated(n) == [i \in 1..n |-> IF i = n THEN 1 ELSE i]
NetidLists(n) == {Rotated(n), Repeated(n)}

CutoffInputs == (0 - MaxNegCutoff)..MaxCutoffInput
CsvInputs == {"true", "false", "True"}

\* ----------------------------------------------------- build_suit_matrix
RECURSIVE DotUpTo(_, _, _)
DotUpTo(a, b, k) == IF k = 0 THEN 0 ELSE DotUpTo(a, b, k - 1) + a[k] * b[k]

\* np.dot of two availability vectors
Dot(a, b) == DotUpTo(a, b, NumSlots)

\* SuitEntry without the priority test
SuitEntryNoPriority(studs, i1, i2) ==
  IF i1 # i2
     /\ Abs(studs[i1].start_pref - studs[i2].start_pref) <= PREF_MAX_DIFF
  THEN Dot(studs[i1].available_times, studs[i2].available_times)
  ELSE 0

\* SuitEntry without the start preference test
SuitEntryNoPreference(studs, i1, i2) ==
  IF i1 # i2
     /\ Abs(studs[i1].priority - studs[i2].priority) <= PRIO_MAX_DIFF
  THEN Dot(studs[i1].available_times, studs[i2].available_times)
  ELSE 0

SuitEntry(studs, i1, i2) ==
  IF i1 # i2
     /\ Abs(studs[i1].start_pref - studs[i2].start_pref) <= PREF_MAX_DIFF
     /\ Abs(studs[i1].priority - studs[i2].priority) <= PRIO_MAX_DIFF
  THEN Dot(studs[i1].available_times, studs[i2].available_times)
  ELSE 0

build_suit_matrix(studs) ==
  [i1 \in Indices(studs) |-> [i2 \in Indices(studs) |-> SuitEntry(studs, i1, i2)]]

\* ----------------------------------------------------------- build_graph
\* nx.Graph: add_edge(u, v) adds both nodes and the undirected edge {u, v}
\* (a self-loop is the edge {u}); adding an edge twice changes nothing
\* SuitablePairs with > for >=
SuitablePairsStrict(ids, matrix, c) ==
  {p \in Indices(ids) \X Indices(ids) :
     matrix[p[1]][p[2]] > c /\ ids[p[1]] < ids[p[2]]}

SuitablePairs(ids, matrix, c) ==
  {p \in Indices(ids) \X Indices(ids) :
     matrix[p[1]][p[2]] >= c /\ ids[p[1]] < ids[p[2]]}

build_graph(ids, matrix, c) ==
  [nodes |-> UNION {{ids[p[1]], ids[p[2]]} : p \in SuitablePairs(ids, matrix, c)},
   edges |-> {{ids[p[1]], ids[p[2]]} : p \in SuitablePairs(ids, matrix, c)}]

\* --------------------------------------------------- max_weight_matching
IsMatching(M) == \A e, f \in M : e # f => e \cap f = {}

Matchings(G) == {M \in SUBSET G.edges : IsMatching(M)}

Exposed(G, M) == G.nodes \ UNION M

\* is there an alternating simple path from v to an exposed node, given the
\* nodes already on the path and whether the next edge must be matched
RECURSIVE AltPath(_, _, _, _, _)
AltPath(G, M, v, visited, wantMatched) ==
  IF wantMatched
  THEN \E w \in G.nodes \ visited :
         /\ {v, w} \in M
         /\ AltPath(G, M, w, visited \cup {w}, FALSE)
  ELSE \E w \in G.nodes \ visited :
         /\ {v, w} \in G.edges \ M
         /\ \/ w \in Exposed(G, M)
            \/ AltPath(G, M, w, visited \cup {w}, TRUE)

HasAugmentingPath(G, M) ==
  \E u \in Exposed(G, M) : AltPath(G, M, u, {u}, FALSE)

\* max_weight_matching(graph, maxcardinality=True) on unit weights: the
\* matchings the blossom search can stop at, those no augmenting path
\* enlarges; which of them it returns depends on the library's traversal
max_weight_matching(G) == {M \in Matchings(G) : ~HasAugmentingPath(G, M)}

\* -------------------------------------------------------- match_students
\* the dict comprehension keeps the last index of a repeated netid
netid_to_index(ids, n) ==
  CHOOSE i \in Indices(ids) :
    ids[i] = n /\ \A j \in Indices(ids) : ids[j] = n => j <= i

PartnerIn(raw, n) == CHOOSE m \in UNION raw : {n, m} \in raw /\ m # n

\* MatchingDict without matching[s2] = s1
MatchingDictOneWay(ids, raw) ==
  [s \in {netid_to_index(ids, n) :
            n \in {x \in UNION raw : x < PartnerIn(raw, x)}} |->
     LET n == CHOOSE x \in UNION raw : netid_to_index(ids, x) = s
     IN netid_to_index(ids, PartnerIn(raw, n))]

\* the dict that the loop over raw_matching fills
MatchingDict(ids, raw) ==
  [s \in {netid_to_index(ids, n) : n \in UNION raw} |->
     LET n == CHOOSE x \in UNION raw : netid_to_index(ids, x) = s
     IN netid_to_index(ids, PartnerIn(raw, n))]

\* match_students on a matching that is only maximal: no edge can be added
match_students_maximal(studs, ids, G) ==
  {MatchingDict(ids, raw) :
     raw \in {M \in Matchings(G) :
                \A e \in G.edges \ M : ~IsMatching(M \cup {e})}}

\* the dicts match_students may return
match_students(studs, ids, G) ==
  {MatchingDict(ids, raw) : raw \in max_weight_matching(G)}

\* len(matching)
DictLen(m) == Cardinality(DOMAIN m)

\* --------------------------------------------- print_matching, save_to_csv
\* the pairs and the unmatched students that print_matching names
print_matching(studs, m) ==
  <<"matching",
    {{i, m[i]} : i \in {k \in DOMAIN m : k <= m[k]}},
    Indices(studs) \ DOMAIN m>>

\* the file's rows: a student and the partner, one row per key of the dict;
\* open() creates the file before the loop over the matching starts, so a
\* matching of None leaves an empty file behind
save_to_csv(m, studs) ==
  IF IsNone(m) THEN {} ELSE {<<i, m.val[i]>> : i \in DOMAIN m.val}

\* ShouldExport without the test for None
ShouldExportAlways(csv, m) == csv

\* ShouldExport that skips an empty matching
ShouldExportNonEmpty(csv, m) == csv /\ ~IsNone(m) /\ m # Some(<<>>)

\* line 195: if if_csv and matching is not None
ShouldExport(csv, m) == csv /\ ~IsNone(m)

\* a range that steps by two
NextInRangeSkip(c) == c - 2

\* line 169: the step of range(start_cutoff, 0, -1)
NextInRange(c) == c - 1

\* ---------------------------------------------------------------- states
Init ==
  /\ students \in StudentLists
  /\ netids \in NetidLists(Len(students))
  /\ suit_matrix = None
  /\ user_cutoff = None
  /\ if_csv = None
  /\ student_num = None
  /\ start_cutoff = None
  /\ cutoff = None
  /\ graph = None
  /\ matching = None
  /\ tried = <<>>
  /\ printed = <<>>
  /\ csv_file = None
  /\ pc = "score"

\* line 141
BuildSuitMatrix ==
  /\ pc = "score"
  /\ suit_matrix' = Some(build_suit_matrix(students))
  /\ pc' = "input"
  /\ UNCHANGED <<students, netids, user_cutoff, if_csv, student_num,
                 start_cutoff, cutoff, graph, matching, tried, printed, csv_file>>

\* lines 143-156: the cutoff and the export choice; an export choice other
\* than "true" or "false" ends the run (lower()'s result is dropped)
ReadInputs ==
  /\ pc = "input"
  /\ \E uc \in CutoffInputs, csv \in CsvInputs :
       /\ user_cutoff' = Some(uc)
       /\ IF csv # "true" /\ csv # "false"
          THEN /\ printed' = Append(printed, <<"Invalid input given">>)
               /\ if_csv' = Some(csv)
               /\ pc' = "exit"
          ELSE /\ if_csv' = Some(csv = "true")
               /\ printed' = printed
               /\ pc' = "mode"
  /\ UNCHANGED <<students, netids, suit_matrix, student_num, start_cutoff,
                 cutoff, graph, matching, tried, csv_file>>

\* the column's minimum for its maximum
ColumnMin(matrix, j) ==
  CHOOSE v \in {matrix[i][j] : i \in DOMAIN matrix} :
    \A i \in DOMAIN matrix : v <= matrix[i][j]

\* np.max(suit_matrix, axis=0)[j]
ColumnMax(matrix, j) ==
  CHOOSE v \in {matrix[i][j] : i \in DOMAIN matrix} :
    \A i \in DOMAIN matrix : matrix[i][j] <= v

\* int(np.min(np.max(suit_matrix, axis=0))), for a matrix that is not empty
StartCutoff(matrix) ==
  CHOOSE v \in {ColumnMax(matrix, j) : j \in DOMAIN matrix} :
    \A j \in DOMAIN matrix : v <= ColumnMax(matrix, j)

\* lines 159-168: the full matching case up to the loop; the reduction of
\* an empty matrix raises ValueError
FullMatchingStart ==
  /\ pc = "mode"
  /\ user_cutoff.val = -1
  /\ student_num' = Some(IF Len(students) % 2 = 1 THEN Len(students) - 1
                         ELSE Len(students))
  /\ LET warned == IF Len(students) % 2 = 1
                   THEN Append(printed, <<"WARNING: Odd number of students">>)
                   ELSE printed
     IN IF Len(students) = 0
        THEN /\ printed' = Append(warned, <<"ValueError">>)
             /\ pc' = "error"
             /\ UNCHANGED <<start_cutoff, cutoff>>
        ELSE /\ printed' = warned
             /\ start_cutoff' = Some(StartCutoff(suit_matrix.val))
             /\ cutoff' = start_cutoff'
             /\ pc' = "loop"
  /\ UNCHANGED <<students, netids, suit_matrix, user_cutoff, if_csv, graph,
                 matching, tried, csv_file>>

\* lines 169-171: the next cutoff of range(start_cutoff, 0, -1)
TryCutoff ==
  /\ pc = "loop"
  /\ cutoff.val >= 1
  /\ graph' = Some(build_graph(netids, suit_matrix.val, cutoff.val))
  /\ \E m \in match_students(students, netids, graph'.val) :
       matching' = Some(m)
  /\ tried' = Append(tried, cutoff.val)
  /\ pc' = "check"
  /\ UNCHANGED <<students, netids, suit_matrix, user_cutoff, if_csv,
                 student_num, start_cutoff, cutoff, printed, csv_file>>

\* lines 172-182
CheckMatching ==
  /\ pc = "check"
  /\ IF DictLen(matching.val) < student_num.val
     THEN /\ matching' = None
          /\ cutoff' = Some(NextInRange(cutoff.val))
          /\ pc' = "loop"
          /\ printed' = printed
     ELSE /\ printed' = printed \o <<print_matching(students, matching.val),
                                     <<"Full matching found">>,
                                     <<"Maximum cutoff", cutoff.val>>>>
          /\ pc' = "after"
          /\ UNCHANGED <<matching, cutoff>>
  /\ UNCHANGED <<students, netids, suit_matrix, user_cutoff, if_csv,
                 student_num, start_cutoff, graph, tried, csv_file>>

\* the range is exhausted
LoopEnd ==
  /\ pc = "loop"
  /\ cutoff.val < 1
  /\ pc' = "after"
  /\ UNCHANGED <<students, netids, suit_matrix, user_cutoff, if_csv,
                 student_num, start_cutoff, cutoff, graph, matching, tried,
                 printed, csv_file>>

\* lines 183-185
AfterLoop ==
  /\ pc = "after"
  /\ printed' = IF IsNone(matching)
                THEN Append(printed, <<"Full matching not possible">>)
                ELSE printed
  /\ pc' = "export"
  /\ UNCHANGED <<students, netids, suit_matrix, user_cutoff, if_csv,
                 student_num, start_cutoff, cutoff, graph, matching, tried,
                 csv_file>>

\* lines 186-193: the user-passed-cutoff case
UserCutoff ==
  /\ pc = "mode"
  /\ user_cutoff.val # -1
  /\ graph' = Some(build_graph(netids, suit_matrix.val, user_cutoff.val))
  /\ \E m \in match_students(students, netids, graph'.val) :
       /\ matching' = Some(m)
       /\ printed' = printed \o <<print_matching(students, m),
                                  <<"Matching found", DictLen(m), user_cutoff.val>>>>
  /\ tried' = Append(tried, user_cutoff.val)
  /\ pc' = "export"
  /\ UNCHANGED <<students, netids, suit_matrix, user_cutoff, if_csv,
                 student_num, start_cutoff, cutoff, csv_file>>

\* lines 195-196
Export ==
  /\ pc = "export"
  /\ csv_file' = IF ShouldExport(if_csv.val, matching)
                 THEN Some(save_to_csv(matching, students))
                 ELSE csv_file
  /\ pc' = "done"
  /\ UNCHANGED <<students, netids, suit_matrix, user_cutoff, if_csv,
                 student_num, start_cutoff, cutoff, graph, matching, tried,
                 printed>>

Next ==
  \/ BuildSuitMatrix
  \/ ReadInputs
  \/ FullMatchingStart
  \/ TryCutoff
  \/ CheckMatching
  \/ LoopEnd
  \/ AfterLoop
  \/ UserCutoff
  \/ Export

Spec == Init /\ [][Next]_vars

\* =================================================================
\* Properties
\* =================================================================

\* the size of a largest set of pairwise disjoint edges, by exhaustion
MaxMatchingSize(G) ==
  LET sizes == {Cardinality(M) : M \in {S \in SUBSET G.edges : IsMatching(S)}}
  IN CHOOSE k \in sizes : \A n \in sizes : n <= k

\* no two rows of the file share a netid
DistinctNetids == \A i, j \in Indices(netids) : netids[i] = netids[j] => i = j

\* the participants a full matching must cover
Required == (Len(students) \div 2) * 2

\* does the graph built at cutoff c admit a matching of the required size
Feasible(c) ==
  2 * MaxMatchingSize(build_graph(netids, suit_matrix.val, c)) >= Required

\* the cutoff of the latest call of build_graph
CutoffUsed == tried[Len(tried)]

FullMode == pc \in {"loop", "check", "after", "export", "done"}
            /\ user_cutoff.val = -1

\* the search has ended with a reported cutoff
Reported == pc \in {"after", "export", "done"} /\ user_cutoff.val = -1
            /\ ~IsNone(matching)

HardEligible(i, j) ==
  /\ i # j
  /\ Abs(students[i].start_pref - students[j].start_pref) <= PREF_MAX_DIFF
  /\ Abs(students[i].priority - students[j].priority) <= PRIO_MAX_DIFF

CommonSlots(i, j) ==
  Cardinality({k \in Slots : students[i].available_times[k] = 1
                             /\ students[j].available_times[k] = 1})

\* C1: in full-matching mode a reported cutoff c is the maximum cutoff whose
\* graph admits a matching covering floor(N/2)*2 participants: no cutoff
\* above c, within the scanned range or beyond it, admits one.  (Stated for
\* lists whose netids are pairwise distinct, as the data model has them.)
C1_ReportedCutoffIsMaximum ==
  (Reported /\ pc = "after" /\ DistinctNetids) =>
    \A c \in (cutoff.val + 1)..(NumSlots + 1) : ~Feasible(c)

\* C2: the matching match_students returns has maximum cardinality: no
\* augmenting path exists relative to it, and its number of pairs is the
\* size of a largest set of pairwise disjoint edges of the graph.
C2_MaximumCardinality ==
  ~IsNone(matching) =>
    LET m == matching.val
        raw == {{netids[i], netids[m[i]]} : i \in DOMAIN m}
    IN /\ raw \subseteq graph.val.edges
       /\ ~HasAugmentingPath(graph.val, raw)
       /\ DictLen(m) = 2 * MaxMatchingSize(graph.val)

C2_Witness ==
  /\ ~IsNone(matching)
  /\ DictLen(matching.val) = 4
  /\ \E a, b, c \in graph.val.nodes :
       {{a, b}, {b, c}, {a, c}} \subseteq graph.val.edges /\ a # b /\ b # c /\ a # c
  /\ Cardinality(graph.val.edges) = 4

\* C3: with pairwise distinct netids the returned index mapping is a valid
\* matching: symmetric, injective, without fixed points, and every mapped
\* pair is an edge of the graph, i.e. its score reaches the cutoff.
C3_ValidMatching ==
  (~IsNone(matching) /\ DistinctNetids) =>
    LET m == matching.val
    IN /\ DOMAIN m \subseteq Indices(students)
       /\ \A i \in DOMAIN m :
            /\ m[i] \in DOMAIN m
            /\ m[m[i]] = i
            /\ m[i] # i
            /\ \A k \in DOMAIN m : m[k] = m[i] => k = i
            /\ {netids[i], netids[m[i]]} \in graph.val.edges
            /\ suit_matrix.val[i][m[i]] >= CutoffUsed

C3_Witness ==
  /\ ~IsNone(matching)
  /\ DistinctNetids
  /\ DictLen(matching.val) = 4
  /\ matching.val[4] = 1

\* C4: the full-matching search tries start, start-1, ... in strictly
\* descending order, builds the graph anew at each cutoff, and stops at the
\* first cutoff that reaches the required size: the reported cutoff is the
\* largest feasible value of [1, start], every higher value of the range was
\* tried and rejected, and nothing is tried after the success.
C4_DescendingScan ==
  FullMode =>
    /\ \A k \in 1..Len(tried) :
         tried[k] = start_cutoff.val - k + 1 /\ tried[k] >= 1
    /\ Len(tried) > 0 => graph.val = build_graph(netids, suit_matrix.val, CutoffUsed)
    /\ pc = "check" => cutoff.val = CutoffUsed
    /\ Reported =>
         /\ CutoffUsed = cutoff.val
         /\ printed[Len(printed)] = <<"Maximum cutoff", cutoff.val>>
    /\ (Reported /\ pc = "after") =>
         /\ cutoff.val \in 1..start_cutoff.val
         /\ Feasible(cutoff.val)
         /\ DictLen(matching.val) >= student_num.val
         /\ \A c \in (cutoff.val + 1)..start_cutoff.val :
              ~Feasible(c) /\ \E k \in 1..Len(tried) : tried[k] = c

C4_Witness ==
  /\ pc = "done"
  /\ Reported
  /\ DistinctNetids
  /\ Len(tried) >= 2

\* C5: build_suit_matrix returns the N x N matrix whose entry is 0 on the
\* diagonal and for a pair whose start preferences or priorities differ by
\* more than the maximum, and otherwise the number of slots in which both
\* are available; it is symmetric with a zero diagonal.
C5_SuitMatrix ==
  ~IsNone(suit_matrix) =>
    LET sm == suit_matrix.val
    IN /\ DOMAIN sm = Indices(students)
       /\ \A i \in Indices(students) :
            /\ DOMAIN sm[i] = Indices(students)
            /\ sm[i][i] = 0
            /\ \A j \in Indices(students) :
                 /\ sm[i][j] = IF HardEligible(i, j) THEN CommonSlots(i, j) ELSE 0
                 /\ sm[i][j] = sm[j][i]

C5_Witness ==
  /\ ~IsNone(suit_matrix)
  /\ Len(students) = 2
  /\ students[1].start_pref = students[2].start_pref
  /\ Abs(students[1].priority - students[2].priority) > PRIO_MAX_DIFF
  /\ CommonSlots(1, 2) = 2
  /\ suit_matrix.val[1][2] = 0

\* C6: with pairwise distinct netids, build_graph joins two participants
\* exactly when their score reaches the cutoff (also for a cutoff <= 0),
\* and the graph has no self-loop and no edge but between participants.
C6_GraphEdges ==
  (~IsNone(graph) /\ DistinctNetids) =>
    LET G == graph.val
    IN /\ \A i, j \in Indices(students) :
            i # j => ({netids[i], netids[j]} \in G.edges
                        <=> suit_matrix.val[i][j] >= CutoffUsed)
       /\ \A e \in G.edges :
            /\ Cardinality(e) = 2
            /\ e \subseteq {netids[i] : i \in Indices(students)}
       /\ G.nodes = UNION G.edges

C6_Witness ==
  /\ ~IsNone(graph)
  /\ DistinctNetids
  /\ CutoffUsed = 0
  /\ Len(students) = 3
  /\ netids[3] < netids[1]
  /\ Cardinality(graph.val.edges) = 3

\* C7: in full-matching mode, when no cutoff of [1, start] reaches the
\* required size or start < 1, the run ends reporting that full matching is
\* not possible: nothing is tried when start < 1, the final matching is
\* None and no file is written even if export was requested.
C7_NoFullMatching ==
  /\ (FullMode /\ start_cutoff.val < 1) => tried = <<>>
  /\ (pc = "done" /\ user_cutoff.val = -1
      /\ \A c \in 1..start_cutoff.val : ~Feasible(c)) =>
       /\ IsNone(matching)
       /\ IsNone(csv_file)
       /\ printed[Len(printed)] = <<"Full matching not possible">>
       /\ \A c \in 1..start_cutoff.val : \E k \in 1..Len(tried) : tried[k] = c

C7_Witness ==
  /\ pc = "done"
  /\ user_cutoff.val = -1
  /\ DistinctNetids
  /\ Len(students) = 4
  /\ tried = <<1>>
  /\ \A c \in 1..start_cutoff.val : ~Feasible(c)
  /\ if_csv.val
  /\ IsNone(csv_file)

\* C8: a user cutoff other than -1 bypasses the search: the graph is built
\* once at exactly that cutoff, the matching computed once, no other cutoff
\* is tried, and the matching is reported, and exported when asked,
\* whatever its size.
C8_ExplicitCutoff ==
  (pc \in {"mode", "export", "done"} /\ user_cutoff.val # -1) =>
    /\ pc = "mode" => tried = <<>>
    /\ pc \in {"export", "done"} =>
         /\ tried = <<user_cutoff.val>>
         /\ graph.val = build_graph(netids, suit_matrix.val, user_cutoff.val)
         /\ ~IsNone(matching)
         /\ printed = <<print_matching(students, matching.val),
                        <<"Matching found", DictLen(matching.val), user_cutoff.val>>>>
    /\ pc = "done" =>
         IF if_csv.val
         THEN csv_file = Some({<<i, matching.val[i]>> : i \in DOMAIN matching.val})
         ELSE IsNone(csv_file)

C8_Witness ==
  /\ pc = "done"
  /\ user_cutoff.val = 2
  /\ Len(students) = 4
  /\ if_csv.val
  /\ matching = Some(<<>>)
  /\ csv_file = Some({})

\* C9: with pairwise distinct netids, every pair of a matching reported in
\* full-matching mode, or under an explicit cutoff >= 1, is hard-eligible
\* and shares at least as many slots as the cutoff used, which is >= 1.
C9_PairsHardEligible ==
  (~IsNone(matching) /\ DistinctNetids /\ CutoffUsed >= 1) =>
    \A i \in DOMAIN matching.val :
      /\ HardEligible(i, matching.val[i])
      /\ CommonSlots(i, matching.val[i]) >= CutoffUsed

C9_Witness ==
  /\ Reported
  /\ pc = "done"
  /\ DistinctNetids
  /\ Len(students) = 2
  /\ Abs(students[1].start_pref - students[2].start_pref) = PREF_MAX_DIFF
  /\ Abs(students[1].priority - students[2].priority) = PRIO_MAX_DIFF
  /\ cutoff.val = 2

\* under an explicit cutoff <= 0 a pair that fails the hard constraints is
\* matched
C9_IneligiblePairMatched ==
  /\ ~IsNone(matching)
  /\ DistinctNetids
  /\ CutoffUsed <= 0
  /\ \E i \in DOMAIN matching.val : ~HardEligible(i, matching.val[i])

\* C10: for an even N >= 2 the bound start is sound: at every cutoff above
\* start some participant has no score reaching it, hence no edge, and no
\* matching covers all N participants.
C10_StartIsSound ==
  (pc = "loop" /\ tried = <<>> /\ Len(students) % 2 = 0 /\ Len(students) >= 2) =>
    \A c \in (start_cutoff.val + 1)..(NumSlots + 1) :
      /\ \E j \in Indices(students) :
           /\ \A i \in Indices(students) : suit_matrix.val[i][j] < c
           /\ DistinctNetids =>
                netids[j] \notin build_graph(netids, suit_matrix.val, c).nodes
      /\ ~Feasible(c)
      /\ \A m \in match_students(students, netids,
                                 build_graph(netids, suit_matrix.val, c)) :
           DictLen(m) < Len(students)

C10_Witness ==
  /\ pc = "loop"
  /\ tried = <<>>
  /\ Len(students) = 4
  /\ DistinctNetids
  /\ start_cutoff.val = 1
  /\ \E i, j \in Indices(students) : suit_matrix.val[i][j] = 3

====
